---- MODULE Spec2Model ----
(***************************************************************************)
(* A model of backup.py: the incremental archival of a message store into  *)
(* per-conversation, per-day text files, with one git commit per day and a *)
(* checkpoint marker `lastrun`.                                            *)
(*                                                                         *)
(* Strings are sequences of one-character strings, so that len, rjust and  *)
(* join are computed and not assumed.  A calendar date is the number of    *)
(* days since 2001-01-01 (the store epoch); a store timestamp counts ticks *)
(* since that instant, TicksPerDay ticks to the day.                       *)
(***************************************************************************)
EXTENDS Integers, Sequences, FiniteSets, TLC

\* ------------------------------------------------------------------ bounds
\* Last calendar day the clock reaches (days 0..MaxDay).
MaxDay == 2
\* Runs started in one behaviour.
MaxRuns == 2
\* git invocations that may end with a non-zero return code in one run.
MaxGitFailures == 1
\* Ticks of the store clock in one calendar day.
TicksPerDay == 2

\* ----------------------------------------------------------------- strings
NULL == <<"NULL">>
NullId == 0

DigitChars == <<"0", "1", "2", "3", "4", "5", "6", "7", "8", "9">>
Digit(n) == DigitChars[n + 1]
PadTwo(n) == <<Digit((n \div 10) % 10), Digit(n % 10)>>

RECURSIVE IntStr(_)
IntStr(n) == IF n < 10 THEN <<Digit(n)>> ELSE IntStr(n \div 10) \o <<Digit(n % 10)>>

Alphabet == <<" ", ",", "-", "0", "1", "2", "3", "4", "5", "6", "7", "8", "9",
              ":", "[", "]", "a", "b", "c", "g", "h", "i", "m", "p", "x">>
CharOrd(c) == CHOOSE i \in 1..Len(Alphabet) : Alphabet[i] = c

RECURSIVE StrLess(_, _)
StrLess(s, t) ==
  IF t = <<>> THEN FALSE
  ELSE IF s = <<>> THEN TRUE
  ELSE IF Head(s) # Head(t) THEN CharOrd(Head(s)) < CharOrd(Head(t))
  ELSE StrLess(Tail(s), Tail(t))

RECURSIVE Join(_, _)
Join(sep, parts) ==
  IF parts = <<>> THEN <<>>
  ELSE IF Len(parts) = 1 THEN parts[1]
  ELSE parts[1] \o sep \o Join(sep, Tail(parts))

RECURSIVE Spaces(_)
Spaces(n) == IF n <= 0 THEN <<>> ELSE <<" ">> \o Spaces(n - 1)

Rjust(s, width) == Spaces(width - Len(s)) \o s
Ljust(s, width) == s \o Spaces(width - Len(s))

RECURSIVE Remove(_, _)
Remove(s, ch) ==
  IF s = <<>> THEN <<>>
  ELSE IF Head(s) = ch THEN Remove(Tail(s), ch)
  ELSE <<Head(s)>> \o Remove(Tail(s), ch)

RECURSIVE SplitLines(_, _)
SplitLines(s, cur) ==
  IF s = <<>> THEN (IF cur = <<>> THEN <<>> ELSE <<cur>>)
  ELSE IF Head(s) = "\n" THEN <<cur>> \o SplitLines(Tail(s), <<>>)
  ELSE SplitLines(Tail(s), cur \o <<Head(s)>>)

RECURSIVE MaxOf(_)
MaxOf(s) ==
  IF Len(s) = 1 THEN s[1]
  ELSE LET m == MaxOf(Tail(s)) IN IF s[1] >= m THEN s[1] ELSE m

\* ------------------------------------------------------------------- dates
\* date.isoformat() and strftime("%Y-%m-%d") of a day of January 2001.
Isoformat(day) == <<"2", "0", "0", "1", "-", "0", "1", "-">> \o PadTwo(day + 1)

\* date.fromisoformat(s): the date whose ISO form is s, or "ValueError".
Dates == 0..30
FromIsoformat(s) ==
  IF \E day \in Dates : Isoformat(day) = s
  THEN CHOOSE day \in Dates : Isoformat(day) = s
  ELSE -1

\* str.rstrip() for the whitespace the marker can hold.
RECURSIVE Rstrip(_)
Rstrip(s) ==
  IF s # <<>> /\ s[Len(s)] \in {"\n", " "} THEN Rstrip(SubSeq(s, 1, Len(s) - 1))
  ELSE s

\* Message._convert_from_timestamp(value).date()
ConvertFromTimestampDate(value) == value \div TicksPerDay
\* Message._convert_to_timestamp(datetime.combine(date, time))
ConvertToTimestamp(day, tick) == day * TicksPerDay + tick
\* timestamp.strftime("%Y-%m-%d %H:%M:%S")
Strftime(value) ==
  Isoformat(value \div TicksPerDay) \o <<" ", "0", "0", ":", "0", "0", ":">>
    \o PadTwo(value % TicksPerDay)

\* ------------------------------------------------------------- Attachment
\* Attachment.dst_name: "%s-%s" % (id, shortname)
dst_name(a) == IntStr(a.id) \o <<"-">> \o a.shortname
\* Attachment.__str__: "[%s]" % dst_name()
AttachmentStr(a) == <<"[">> \o dst_name(a) \o <<"]">>
\* Attachment.src_name: the source path (expanduser changes no path of the model)
src_name(a) == a.filename

\* ------------------------------------------------------------------- Chat
\* Rows of Chat.ALL: chat INNER JOIN chat_handle_join INNER JOIN handle.
ChatAllRows(store) ==
  { <<p[1].chat_id, p[2].ROWID, p[2].id>> :
      p \in { q \in store.chat_handle_join \X store.handle :
                q[1].chat_id \in store.chat /\ q[2].ROWID = q[1].handle_id } }

\* ORDER BY chat.ROWID, handle.id (ties in handle.ROWID order).
ChatRowLess(a, b) ==
  \/ a[1] < b[1]
  \/ a[1] = b[1] /\ StrLess(a[3], b[3])
  \/ a[1] = b[1] /\ a[3] = b[3] /\ a[2] < b[2]

RECURSIVE SortChatRows(_)
SortChatRows(S) ==
  IF S = {} THEN <<>>
  ELSE LET m == CHOOSE x \in S : \A y \in S \ {x} : ChatRowLess(x, y)
       IN <<m>> \o SortChatRows(S \ {m})

\* Chat.all: chat id -> the participants' handles, in the insertion order of the dict.
RECURSIVE ParticipantsOf(_, _)
ParticipantsOf(rows, id) ==
  IF rows = <<>> THEN <<>>
  ELSE IF Head(rows)[1] = id THEN <<Head(rows)[3]>> \o ParticipantsOf(Tail(rows), id)
  ELSE ParticipantsOf(Tail(rows), id)

ChatAll(store) ==
  LET rows == SortChatRows(ChatAllRows(store))
      ids == { rows[i][1] : i \in 1..Len(rows) }
  IN [id \in ids |-> ParticipantsOf(rows, id)]

\* Chat.dir_name: ",".join(participants.values())
dir_name(participants) == Join(<<",">>, participants)

\* ---------------------------------------------------------------- Message
\* The attachment placeholder character U+FFFC of the store's text.
ObjectReplacement == "*"

\* Message.EARLIEST: the date column of the first row by date, or NullId + no row.
HasEarliest(store) == store.message # {}
Earliest(store) ==
  (CHOOSE m \in store.message : \A o \in store.message : m.date <= o.date).date

\* Message.earliest_date
earliest_date(store) == ConvertFromTimestampDate(Earliest(store))

\* LEFT JOIN handle ON handle.ROWID = message.handle_id
HandleOf(store, m) ==
  IF \E h \in store.handle : h.ROWID = m.handle_id
  THEN (CHOOSE h \in store.handle : h.ROWID = m.handle_id).id
  ELSE NULL

\* LEFT JOIN message_attachment_join, LEFT JOIN attachment ON ... AND
\* transfer_state = 5 AND hide_attachment != 1: the attachment columns joined to m.
NoAttachment == [ROWID |-> NullId, transfer_name |-> NULL, filename |-> NULL]
AttachmentColumns(store, m) ==
  LET joins == { j \in store.message_attachment_join : j.message_id = m.ROWID }
      Surfaced(j) == { a \in store.attachment :
                         /\ a.ROWID = j.attachment_id
                         /\ a.transfer_state = 5
                         /\ a.hide_attachment # 1 }
  IN IF joins = {} THEN {NoAttachment}
     ELSE UNION { IF Surfaced(j) = {} THEN {NoAttachment}
                  ELSE { [ROWID |-> a.ROWID, transfer_name |-> a.transfer_name,
                          filename |-> a.filename] : a \in Surfaced(j) } : j \in joins }

\* The rows of Message.FOR_DAY with :start <= message.date <= :finish.
ForDayRows(store, start, finish) ==
  UNION { UNION { { [ROWID |-> m.ROWID, date |-> m.date, chat_id |-> j.chat_id,
                     handle |-> HandleOf(store, m),
                     caller |-> m.destination_caller_id,
                     is_from_me |-> m.is_from_me, text |-> m.text,
                     att_id |-> a.ROWID, transfer_name |-> a.transfer_name,
                     filename |-> a.filename] : a \in AttachmentColumns(store, m) }
                  : j \in { k \in store.chat_message_join : k.message_id = m.ROWID } }
          : m \in { x \in store.message : start <= x.date /\ x.date <= finish } }

\* An order by row id that ignores the date.
RowLessById(a, b) ==
  \/ a.ROWID < b.ROWID
  \/ a.ROWID = b.ROWID /\ a.chat_id < b.chat_id
  \/ a.ROWID = b.ROWID /\ a.chat_id = b.chat_id /\ a.att_id < b.att_id

\* ORDER BY message.date; rows of one date come in the order of the scan
\* (message, conversation, attachment row ids).
RowLess(a, b) ==
  \/ a.date < b.date
  \/ a.date = b.date /\ a.ROWID < b.ROWID
  \/ a.date = b.date /\ a.ROWID = b.ROWID /\ a.chat_id < b.chat_id
  \/ a.date = b.date /\ a.ROWID = b.ROWID /\ a.chat_id = b.chat_id /\ a.att_id < b.att_id

RECURSIVE SortRows(_)
SortRows(S) ==
  IF S = {} THEN <<>>
  ELSE LET m == CHOOSE x \in S : \A y \in S \ {x} : RowLess(x, y)
       IN <<m>> \o SortRows(S \ {m})

\* The keys of a defaultdict filled in the order of keys: first appearances.
RECURSIVE InsertionOrder(_, _)
InsertionOrder(keys, seen) ==
  IF keys = <<>> THEN <<>>
  ELSE IF Head(keys) \in seen THEN InsertionOrder(Tail(keys), seen)
  ELSE <<Head(keys)>> \o InsertionOrder(Tail(keys), seen \cup {Head(keys)})

RECURSIVE SelectSeqBy(_, _, _)
SelectSeqBy(s, keys, k) ==
  IF s = <<>> THEN <<>>
  ELSE IF Head(keys) = k THEN <<Head(s)>> \o SelectSeqBy(Tail(s), Tail(keys), k)
  ELSE SelectSeqBy(Tail(s), Tail(keys), k)

\* Message._load: the Message of the rows raw of one message id.
RECURSIVE LoadAttachments(_)
LoadAttachments(raw) ==
  IF raw = <<>> THEN <<>>
  ELSE (IF Head(raw).att_id # NullId
        THEN << [id |-> Head(raw).att_id, shortname |-> Head(raw).transfer_name,
                 filename |-> Head(raw).filename] >>
        ELSE <<>>) \o LoadAttachments(Tail(raw))

MessageLoad(raw) ==
  [timestamp |-> raw[1].date,
   chat_id |-> raw[1].chat_id,
   handle_id |-> raw[1].handle,
   caller_id |-> raw[1].caller,
   is_from_me |-> (raw[1].is_from_me = 1),
   text |-> raw[1].text,
   attachments |-> LoadAttachments(raw)]

\* A query that forgets the lower end of the day.
for_day_until(store, upto) ==
  LET rows == SortRows(ForDayRows(store, 0, ConvertToTimestamp(upto, TicksPerDay - 1)))
      keys == [i \in 1..Len(rows) |-> rows[i].ROWID]
      ids == InsertionOrder(keys, {})
  IN [i \in 1..Len(ids) |-> MessageLoad(SelectSeqBy(rows, keys, ids[i]))]

\* Message.for_day: one Message per message id, in the order the ids first appear.
for_day(store, day) ==
  LET start == ConvertToTimestamp(day, 0)
      finish == ConvertToTimestamp(day, TicksPerDay - 1)
      rows == SortRows(ForDayRows(store, start, finish))
      keys == [i \in 1..Len(rows) |-> rows[i].ROWID]
      ids == InsertionOrder(keys, {})
  IN [i \in 1..Len(ids) |-> MessageLoad(SelectSeqBy(rows, keys, ids[i]))]

\* Message.sender
sender(m) == IF m.is_from_me THEN m.caller_id ELSE m.handle_id

\* Message.render, or AttributeError when the text or the sender is None.
AttributeError == <<"AttributeError">>
RECURSIVE MapAttachmentStr(_)
MapAttachmentStr(as) ==
  IF as = <<>> THEN <<>> ELSE <<AttachmentStr(Head(as))>> \o MapAttachmentStr(Tail(as))

render(m, max_sender_length) ==
  IF m.text = NULL \/ sender(m) = NULL THEN AttributeError
  ELSE
    LET attachments == Join(<<" ">>, MapAttachmentStr(m.attachments))
        joined == Join(Ljust(<<"\n">>, max_sender_length + 23), SplitLines(m.text, <<>>))
        stripped == Remove(joined, ObjectReplacement)
        text == IF m.attachments = <<>> THEN joined
                ELSE IF stripped # <<>> THEN Join(<<" ">>, <<stripped, attachments>>)
                ELSE attachments
    IN Strftime(m.timestamp) \o <<" ">> \o Rjust(sender(m), max_sender_length)
         \o <<":", " ">> \o text

\* messages_by_chat of the main loop: the chat ids in insertion order, and the
\* messages of one chat id in the order for_day returned them.
ChatKeys(messages) == [i \in 1..Len(messages) |-> messages[i].chat_id]
ChatOrder(messages) == InsertionOrder(ChatKeys(messages), {})
MessagesOfChat(messages, chat_id) == SelectSeqBy(messages, ChatKeys(messages), chat_id)

\* The width of the narrowest sender instead of the widest.
min_sender_length(messages) ==
  0 - MaxOf([i \in 1..Len(messages) |-> 0 - Len(sender(messages[i]))])

\* max(len(m.sender()) for m in messages), or TypeError (-1) when a sender is None.
max_sender_length(messages) ==
  IF \E i \in 1..Len(messages) : sender(messages[i]) = NULL THEN -1
  ELSE MaxOf([i \in 1..Len(messages) |-> Len(sender(messages[i]))])

\* ------------------------------------------------------------------ state
VARIABLES
  db,            \* the message store (chat.db), read only
  args,          \* the parsed options: attachments, use_git
  today,         \* date.today()
  lastrun,       \* content of {path}/lastrun, or Absent
  files,         \* the archive tree: path -> content (a sequence of lines)
  dirs,          \* the conversation directories that exist
  git_repo,      \* whether {path}/.git exists
  index,         \* the git index: path -> staged content
  head,          \* the tree of the last commit: path -> content
  commits,       \* the commits made, oldest first
  pc,            \* where the run is; "idle" when no run is in progress
  lastrun_at,    \* first day of the run's range
  chats,         \* chat id -> participants, loaded once per run
  n,             \* length of range(...) of the main loop
  d,             \* loop index of the main loop
  chat_queue,    \* chat ids of the day still to write, the first one in work
  msgs,          \* messages of the chat still to write
  atts,          \* attachments of the message still to copy
  buffer,        \* lines written to the open day file and not yet flushed
  log,           \* history: the operations of the run
  stderr,        \* history: what the run printed on stderr
  git_failures,  \* history: git invocations of the run that returned non-zero
  runs,          \* history: runs started
  lastrun0,      \* history: the content of lastrun when the run loaded it
  first_day,     \* history: the earliest day a checkpoint was written for, or -1
  first_written, \* history: path -> content of a day file when its day was first completed, and the run
  prev           \* history: how the run before ended, or that lastrun was rolled back

env == <<db, args, today>>
archive == <<lastrun, files, dirs, git_repo, index, head, commits>>
locals == <<lastrun_at, chats, n, d, chat_queue, msgs, atts, buffer>>
history == <<log, stderr, git_failures, lastrun0>>
ghosts == <<first_day, first_written, prev>>
vars == <<env, archive, pc, locals, history, runs, ghosts>>

Absent == <<"absent">>
LastrunPath == << <<>>, <<"lastrun">> >>
DayFileName(day) == Isoformat(day) \o <<".", "t", "x", "t">>
\* The bytes of the attachment source file filename.
Payload(filename) == <<filename>>

Put(f, k, v) == [x \in (DOMAIN f) \cup {k} |-> IF x = k THEN v ELSE f[x]]
Max(a, b) == IF a >= b THEN a ELSE b

\* The day in work, its messages, and the paths of the conversation in work.
day == lastrun_at + d
chat_id == Head(chat_queue)
chat_path == dir_name(chats[chat_id])
messages_path == <<chat_path, DayFileName(day)>>
attachment_path == <<chat_path, dst_name(Head(atts))>>

Op(op, path, rc) == [op |-> op, day |-> day, path |-> path, rc |-> rc, out |-> <<>>]
NoPath == << <<>>, <<>> >>
\* An operation of the run that belongs to no day.
RunOp(op, rc) == [op |-> op, day |-> -1, path |-> NoPath, rc |-> rc, out |-> <<>>]

\* An uncaught exception: the traceback goes to stderr and the process exits.
Raise(exception) ==
  /\ pc' = "crashed"
  /\ stderr' = Append(stderr, exception)
  /\ UNCHANGED locals

\* ------------------------------------------------------------------- git
\* git(dir, *args): runs git and returns (returncode, output); nothing is printed
\* and no caller reads the return code.  rc is the return code of this call.
GitReturnCodes ==
  IF ~git_repo THEN {128}
  ELSE {0} \cup (IF git_failures < MaxGitFailures THEN {1} ELSE {})

git(op, path, rc) ==
  /\ log' = Append(log, IF op \in {"init", "push"} THEN RunOp(op, rc) ELSE Op(op, path, rc))
  /\ git_failures' = IF rc = 1 THEN git_failures + 1 ELSE git_failures
  /\ UNCHANGED <<stderr, lastrun0>>

\* bool((returncode, output)): a non-empty tuple is true.
Truthy(tuple) == Len(tuple) > 0
\* The output of `git remote`: the names of the remotes configured.
RemoteOutput(remote) == IF remote THEN <<"origin">> ELSE <<>>

\* The paths whose staged content differs from the last commit.
Staged == { p \in DOMAIN index : p \notin DOMAIN head \/ head[p] # index[p] }

\* ------------------------------------------------------------- operations
\* Lines 218-228: the run starts; the archive directory exists from here on.
StartRun ==
  /\ pc = "idle"
  /\ runs < MaxRuns
  /\ runs' = runs + 1
  /\ pc' = IF args.use_git /\ ~git_repo THEN "init" ELSE "load"
  /\ UNCHANGED <<env, archive, locals, history, ghosts>>

\* Line 228: git init.
GitInit ==
  /\ pc = "init"
  /\ \E rc \in {0} \cup (IF git_failures < MaxGitFailures THEN {1} ELSE {}) :
       /\ git("init", NoPath, rc)
       /\ git_repo' = (rc = 0)
  /\ pc' = "load"
  /\ UNCHANGED <<env, runs, ghosts, lastrun, files, dirs, index, head, commits, locals>>

\* Lines 230-238: the first day of the range, the chats, and the range itself.
LoadedDate ==
  IF lastrun = Absent
  THEN (IF HasEarliest(db) THEN earliest_date(db) ELSE -1)
  ELSE FromIsoformat(Rstrip(lastrun))

\* A range that includes today.
RangeLengthInclusive(now, start) == Max(now - start + 1, 0)
\* Line 238: range(int((date.today() - lastrun_at).days)) has this many days.
RangeLength(now, start) == Max(now - start, 0)

ResolveRange ==
  /\ pc = "load"
  /\ lastrun0' = lastrun
  /\ IF LoadedDate = -1
     THEN /\ Raise(IF lastrun = Absent THEN "TypeError" ELSE "ValueError")
          /\ UNCHANGED <<env, runs, ghosts, archive, log, git_failures>>
     ELSE /\ lastrun_at' = LoadedDate
          /\ chats' = ChatAll(db)
          /\ n' = RangeLength(today, LoadedDate)
          /\ d' = 0
          /\ pc' = "day"
          /\ log' = Append(log, [op |-> "range", day |-> LoadedDate, path |-> NoPath,
                                 rc |-> 0, out |-> <<>>])
          /\ UNCHANGED <<env, runs, ghosts, archive, chat_queue, msgs, atts, buffer,
                         stderr, git_failures>>

\* Lines 238-244: the next day of the range and its messages by chat.
BeginDay ==
  /\ pc = "day"
  /\ d < n
  /\ chat_queue' = ChatOrder(for_day(db, day))
  /\ log' = Append(log, Op("day", NoPath, 0))
  /\ pc' = "chat"
  /\ UNCHANGED <<env, runs, ghosts, archive, lastrun_at, chats, n, d, msgs, atts, buffer,
                 stderr, git_failures, lastrun0>>

\* A day file opened in append mode keeps what it held.
OpenForAppending(old) == old
\* open(messages_path, "w"): the file is created or truncated.
OpenForWriting(old) == <<>>

\* Lines 246-255: the next chat of the day: its directory and its day file.
OpenDayFile ==
  /\ pc = "chat"
  /\ chat_queue # <<>>
  /\ LET messages == MessagesOfChat(for_day(db, day), chat_id)
     IN IF chat_id \notin DOMAIN chats
        THEN /\ Raise("KeyError")
             /\ UNCHANGED <<env, runs, ghosts, archive, log, git_failures, lastrun0>>
        ELSE IF max_sender_length(messages) = -1
        THEN /\ Raise("TypeError")
             /\ UNCHANGED <<env, runs, ghosts, archive, log, git_failures, lastrun0>>
        ELSE /\ dirs' = dirs \cup {chat_path}
             /\ files' = Put(files, messages_path,
                             OpenForWriting(IF messages_path \in DOMAIN files
                                            THEN files[messages_path] ELSE <<>>))
             /\ buffer' = OpenForWriting(IF messages_path \in DOMAIN files
                                          THEN files[messages_path] ELSE <<>>)
             /\ msgs' = messages
             /\ log' = Append(log, Op("open", messages_path, 0))
             /\ pc' = "write"
             /\ UNCHANGED <<env, runs, ghosts, lastrun, git_repo, index, head, commits, lastrun_at,
                            chats, n, d, chat_queue, atts, stderr, git_failures, lastrun0>>

\* The with block is left: the file is closed and what was written reaches the disk.
Flush == files' = Put(files, messages_path, buffer)

\* Line 257 (and 259-260): one message is rendered and written.
WriteMessage ==
  /\ pc = "write"
  /\ msgs # <<>>
  /\ LET all == MessagesOfChat(for_day(db, day), chat_id)
         line == render(Head(msgs), max_sender_length(all))
     IN IF line = AttributeError
        THEN /\ Raise("AttributeError")
             /\ Flush
             /\ UNCHANGED <<env, runs, ghosts, lastrun, dirs, git_repo, index, head, commits, log,
                            git_failures, lastrun0>>
        ELSE /\ buffer' = Append(buffer, line \o <<"\n">>)
             /\ log' = Append(log, Op("write", messages_path, 0))
             /\ IF args.attachments /\ Head(msgs).attachments # <<>>
                THEN /\ atts' = Head(msgs).attachments
                     /\ pc' = "copy"
                     /\ UNCHANGED msgs
                ELSE /\ msgs' = Tail(msgs)
                     /\ UNCHANGED <<atts, pc>>
             /\ UNCHANGED <<env, runs, ghosts, archive, lastrun_at, chats, n, d, chat_queue, stderr,
                            git_failures, lastrun0>>

\* After the last attachment of a message the next message is written.
AfterAttachment(rest) ==
  /\ atts' = rest
  /\ IF rest = <<>>
     THEN msgs' = Tail(msgs) /\ pc' = "write"
     ELSE UNCHANGED msgs /\ pc' = "copy"

\* A copy failure that is caught and skipped: the loop goes on.
CopyFailedIgnored ==
  /\ log' = Append(log, Op("copy", attachment_path, 1))
  /\ AfterAttachment(Tail(atts))
  /\ UNCHANGED <<env, runs, ghosts, archive, lastrun_at, chats, n, d, chat_queue, buffer,
                 stderr, git_failures, lastrun0>>

\* Line 263: shutil.copyfile raises; nothing catches it, the with block closes the
\* day file and the process exits.
CopyFailed ==
  /\ Raise("FileNotFoundError")
  /\ Flush
  /\ log' = Append(log, Op("copy", attachment_path, 1))
  /\ UNCHANGED <<env, runs, ghosts, lastrun, dirs, git_repo, index, head, commits,
                 git_failures, lastrun0>>

\* Lines 261-263: shutil.copyfile of one attachment; a source that is missing or
\* cannot be read (readable is what the file system answers) raises.
CopyAttachment ==
  /\ pc = "copy"
  /\ \E readable \in BOOLEAN :
       IF ~readable
       THEN CopyFailed
       ELSE /\ files' = Put(files, attachment_path, Payload(src_name(Head(atts))))
            /\ log' = Append(log, Op("copy", attachment_path, 0))
            /\ IF args.use_git
               THEN pc' = "add_attachment" /\ UNCHANGED <<atts, msgs>>
               ELSE AfterAttachment(Tail(atts))
            /\ UNCHANGED <<env, runs, ghosts, lastrun, dirs, git_repo, index, head,
                           commits, lastrun_at, chats, n, d, chat_queue, buffer, stderr,
                           git_failures, lastrun0>>

\* Line 266: git add of the copied attachment.
GitAddAttachment ==
  /\ pc = "add_attachment"
  /\ \E rc \in GitReturnCodes :
       /\ git("add", attachment_path, rc)
       /\ index' = IF rc = 0 THEN Put(index, attachment_path, files[attachment_path])
                   ELSE index
  /\ AfterAttachment(Tail(atts))
  /\ UNCHANGED <<env, runs, ghosts, lastrun, files, dirs, git_repo, head, commits, lastrun_at,
                 chats, n, d, chat_queue, buffer>>

\* Line 255, the end of the with block: the day file is closed.
CloseDayFile ==
  /\ pc = "write"
  /\ msgs = <<>>
  /\ Flush
  /\ buffer' = <<>>
  /\ log' = Append(log, Op("close", messages_path, 0))
  /\ IF args.use_git
     THEN pc' = "add_messages" /\ UNCHANGED chat_queue
     ELSE pc' = "chat" /\ chat_queue' = Tail(chat_queue)
  /\ UNCHANGED <<env, runs, ghosts, lastrun, dirs, git_repo, index, head,
                 commits, lastrun_at, chats, n, d, msgs, atts, stderr, git_failures,
                 lastrun0>>

\* Line 269: git add of the day file.
GitAddMessages ==
  /\ pc = "add_messages"
  /\ \E rc \in GitReturnCodes :
       /\ git("add", messages_path, rc)
       /\ index' = IF rc = 0 THEN Put(index, messages_path, files[messages_path])
                   ELSE index
  /\ chat_queue' = Tail(chat_queue)
  /\ pc' = "chat"
  /\ UNCHANGED <<env, runs, ghosts, lastrun, files, dirs, git_repo, head, commits, lastrun_at,
                 chats, n, d, msgs, atts, buffer>>

\* A checkpoint that names the day just processed instead of the day after it.
NextCheckpointSameDay(processed) == processed
\* Line 272: the checkpoint written after day: the day after it.
NextCheckpoint(processed) == processed + 1

\* Line 271: open(lastrun, mode="w") truncates the marker (after the last chat).
OpenLastrun ==
  /\ pc = "chat"
  /\ chat_queue = <<>>
  /\ lastrun' = <<>>
  /\ pc' = "save"
  /\ UNCHANGED <<env, runs, ghosts, files, dirs, git_repo, index, head, commits, locals, history>>

\* The day files the run has closed for the day in work.
ClosedToday == { log[i].path : i \in { j \in 1..Len(log) : log[j].op = "close" /\ log[j].day = day } }

\* Line 272 and the end of the with block: the marker holds the new date.
WriteLastrun ==
  /\ pc = "save"
  /\ lastrun' = Isoformat(NextCheckpoint(day)) \o <<"\n">>
  /\ log' = Append(log, Op("save", LastrunPath, 0))
  /\ first_day' = IF first_day = -1 \/ day < first_day THEN day ELSE first_day
  /\ first_written' =
       [p \in (DOMAIN first_written) \cup ClosedToday |->
          IF p \in DOMAIN first_written THEN first_written[p]
          ELSE [content |-> files[p], run |-> runs]]
  /\ IF args.use_git
     THEN pc' = "add_lastrun" /\ UNCHANGED d
     ELSE pc' = "day" /\ d' = d + 1
  /\ UNCHANGED <<env, runs, prev, files, dirs, git_repo, index, head,
                 commits, lastrun_at, chats, n, chat_queue, msgs, atts, buffer, stderr,
                 git_failures, lastrun0>>

\* Line 275: git add lastrun.
GitAddLastrun ==
  /\ pc = "add_lastrun"
  /\ \E rc \in GitReturnCodes :
       /\ git("add", LastrunPath, rc)
       /\ index' = IF rc = 0 THEN Put(index, LastrunPath, lastrun) ELSE index
  /\ pc' = "commit"
  /\ UNCHANGED <<env, runs, ghosts, lastrun, files, dirs, git_repo, head, commits, locals>>

\* A day loop that goes on to the next day without the commit.
GitCommitSkipped ==
  /\ pc = "commit"
  /\ d' = d + 1
  /\ pc' = "day"
  /\ UNCHANGED <<env, runs, ghosts, archive, lastrun_at, chats, n, chat_queue, msgs, atts,
                 buffer, history>>

\* Line 276: git commit --allow-empty --message "Chat Archive for {day_str}".
GitCommit ==
  /\ pc = "commit"
  /\ \E rc \in GitReturnCodes :
       /\ git("commit", NoPath, rc)
       /\ IF rc = 0
          THEN /\ commits' = commits \cup {[message |-> Isoformat(day), paths |-> Staged]}
               /\ head' = index
          ELSE UNCHANGED <<commits, head>>
  /\ d' = d + 1
  /\ pc' = "day"
  /\ UNCHANGED <<env, runs, ghosts, lastrun, files, dirs, git_repo, index, lastrun_at, chats, n,
                 chat_queue, msgs, atts, buffer>>

\* Line 278 without git: the loop is over and the run ends.
Finish ==
  /\ pc = "day"
  /\ d >= n
  /\ ~args.use_git
  /\ pc' = "done"
  /\ UNCHANGED <<env, runs, ghosts, archive, locals, history>>

\* Line 278 with git: git(path, "remote") and the truth value of what it returns.
GitRemote ==
  /\ pc = "day"
  /\ d >= n
  /\ args.use_git
  /\ \E rc \in GitReturnCodes, remote \in BOOLEAN :
       /\ log' = Append(log, [RunOp("remote", rc) EXCEPT !.out = RemoteOutput(remote)])
       /\ git_failures' = IF rc = 1 THEN git_failures + 1 ELSE git_failures
       /\ UNCHANGED <<stderr, lastrun0>>
       /\ pc' = IF Truthy(<<rc, RemoteOutput(remote)>>) THEN "push" ELSE "done"
  /\ UNCHANGED <<env, runs, ghosts, archive, locals>>

\* Line 279: git push.
GitPush ==
  /\ pc = "push"
  /\ \E rc \in GitReturnCodes : git("push", NoPath, rc)
  /\ pc' = "done"
  /\ UNCHANGED <<env, runs, ghosts, archive, locals>>

\* ------------------------------------------------------------ environment
Running == pc \notin {"idle", "done", "crashed", "killed"}
FileIsOpen == pc \in {"write", "copy", "add_attachment"}

\* The process is terminated: of the open day file's buffer, any prefix may have
\* reached the disk.
Terminate ==
  /\ Running
  /\ pc' = "killed"
  /\ IF FileIsOpen
     THEN \E k \in 0..Len(buffer) : files' = Put(files, messages_path, SubSeq(buffer, 1, k))
     ELSE UNCHANGED files
  /\ UNCHANGED <<env, runs, ghosts, lastrun, dirs, git_repo, index, head, commits, locals, history>>

\* Whether the run began day x and did not write the checkpoint after it.
Began(x) == \E i \in 1..Len(log) : log[i].op = "day" /\ log[i].day = x
Saved(x) == \E i \in 1..Len(log) : log[i].op = "save" /\ log[i].day = x

\* The process is gone; nothing of it but the archive remains.
Exit ==
  /\ pc \in {"done", "crashed", "killed"}
  /\ pc' = "idle"
  /\ lastrun_at' = 0 /\ chats' = <<>> /\ n' = 0 /\ d' = 0
  /\ chat_queue' = <<>> /\ msgs' = <<>> /\ atts' = <<>> /\ buffer' = <<>>
  /\ log' = <<>> /\ stderr' = <<>> /\ git_failures' = 0 /\ lastrun0' = Absent
  /\ prev' = IF pc = "killed" /\ Began(day) /\ ~Saved(day)
             THEN [how |-> "killed_in_day", day |-> day]
             ELSE [how |-> pc, day |-> -1]
  /\ UNCHANGED <<env, runs, first_day, first_written, archive>>

\* Midnight passes between two runs.
Tick ==
  /\ pc = "idle"
  /\ today < MaxDay
  /\ today' = today + 1
  /\ UNCHANGED <<db, args, runs, ghosts, archive, pc, locals, history>>

\* The user rolls the checkpoint back to an earlier date between two runs.
Rollback ==
  /\ pc = "idle"
  /\ lastrun # Absent
  /\ FromIsoformat(Rstrip(lastrun)) # -1
  /\ \E earlier \in 0..(FromIsoformat(Rstrip(lastrun)) - 1) :
       lastrun' = Isoformat(earlier) \o <<"\n">>
  /\ prev' = [how |-> "rolled_back", day |-> -1]
  /\ UNCHANGED <<env, runs, first_day, first_written, files, dirs, git_repo, index, head,
                 commits, pc, locals, history>>

\* ------------------------------------------------------------------ stores
Times == 0..(MaxDay * TicksPerDay - 1)
NoTime == 0 - 1

HandleTable == { [ROWID |-> 1, id |-> <<"a">>], [ROWID |-> 2, id |-> <<"b", "c">>] }
IncomingMessage(t) ==
  [ROWID |-> 1, date |-> t, handle_id |-> 1, destination_caller_id |-> <<"m">>,
   is_from_me |-> 0, text |-> <<"h", "i">>]
OutgoingMessage(t) ==
  [ROWID |-> 2, date |-> t, handle_id |-> 2, destination_caller_id |-> <<"m", "m", "x">>,
   is_from_me |-> 1, text |-> <<ObjectReplacement>>]
AttachmentRow ==
  [ROWID |-> 1, transfer_name |-> <<"p">>, filename |-> <<"g">>,
   transfer_state |-> 5, hide_attachment |-> 0]

\* A store with an incoming message at t1 in chat 1 and an outgoing one at t2 in
\* chat c2, with an attachment when a2 (NoTime: no such message).
MkStore(t1, t2, c2, a2) ==
  [chat |-> {1, 2},
   handle |-> HandleTable,
   chat_handle_join |-> { [chat_id |-> 1, handle_id |-> 1], [chat_id |-> 2, handle_id |-> 2] },
   message |-> (IF t1 = NoTime THEN {} ELSE {IncomingMessage(t1)})
                 \cup (IF t2 = NoTime THEN {} ELSE {OutgoingMessage(t2)}),
   chat_message_join |-> (IF t1 = NoTime THEN {} ELSE {[chat_id |-> 1, message_id |-> 1]})
                 \cup (IF t2 = NoTime THEN {} ELSE {[chat_id |-> c2, message_id |-> 2]}),
   message_attachment_join |-> IF t2 # NoTime /\ a2
                               THEN {[message_id |-> 2, attachment_id |-> 1]} ELSE {},
   attachment |-> IF t2 # NoTime /\ a2 THEN {AttachmentRow} ELSE {}]

\* The empty store, the stores with the incoming message alone at the start of a
\* day, and those with the outgoing message at the same time or later.
DayStarts == { ConvertToTimestamp(day0, 0) : day0 \in 0..(MaxDay - 1) }
Stores ==
  {MkStore(NoTime, NoTime, 1, FALSE)}
  \cup { MkStore(t1, NoTime, 1, FALSE) : t1 \in DayStarts }
  \cup { MkStore(q[1], q[2], q[3], q[4]) :
           q \in { r \in DayStarts \X Times \X {1, 2} \X BOOLEAN : r[1] <= r[2] } }

\* Stores of other shapes, all with both messages on the first day.
\* The outgoing message has a NULL text and an attachment.
NullTextStore ==
  [MkStore(0, 1, 1, TRUE) EXCEPT
     !.message = {IncomingMessage(0), [OutgoingMessage(1) EXCEPT !.text = NULL]}]
\* The outgoing message, with its attachment, is joined to both conversations.
TwoChatsStore ==
  [MkStore(0, 1, 1, TRUE) EXCEPT
     !.chat_message_join = @ \cup {[chat_id |-> 2, message_id |-> 2]}]
\* The outgoing message has two surfaced attachments and one still in transfer.
TwoAttachmentsStore ==
  [MkStore(0, 1, 1, TRUE) EXCEPT
     !.message_attachment_join = { [message_id |-> 2, attachment_id |-> a] : a \in 1..3 },
     !.attachment = { AttachmentRow,
                      [AttachmentRow EXCEPT !.ROWID = 2, !.transfer_name = <<"x">>],
                      [AttachmentRow EXCEPT !.ROWID = 3, !.transfer_state = 0] }]
\* Two conversations whose participants are two handles of one identity (the same
\* address reached over two services), each with a message.
SameIdentityStore ==
  [MkStore(0, 1, 2, FALSE) EXCEPT
     !.handle = HandleTable \cup {[ROWID |-> 3, id |-> <<"a">>]},
     !.chat_handle_join = { [chat_id |-> 1, handle_id |-> 1], [chat_id |-> 2, handle_id |-> 3] }]
\* The second conversation has a message and no participant row.
NoParticipantsStore ==
  [MkStore(0, 1, 2, FALSE) EXCEPT
     !.chat_handle_join = { [chat_id |-> 1, handle_id |-> 1] }]
\* The message with the larger row id is the earlier one.
ReverseOrderStore == MkStore(1, 0, 1, FALSE)

ShapeStores == { NullTextStore, TwoChatsStore, TwoAttachmentsStore, SameIdentityStore,
                 NoParticipantsStore, ReverseOrderStore }

HasAttachments(store) == store.attachment # {}

Init ==
  /\ db \in Stores \cup ShapeStores
  /\ args \in { a \in [attachments : BOOLEAN, use_git : BOOLEAN] :
                  ~HasAttachments(db) => a.attachments }
  /\ today = 0
  /\ lastrun = Absent
  /\ files = <<>> /\ dirs = {} /\ git_repo = FALSE
  /\ index = <<>> /\ head = <<>> /\ commits = {}
  /\ pc = "idle"
  /\ lastrun_at = 0 /\ chats = <<>> /\ n = 0 /\ d = 0
  /\ chat_queue = <<>> /\ msgs = <<>> /\ atts = <<>> /\ buffer = <<>>
  /\ log = <<>> /\ stderr = <<>> /\ git_failures = 0 /\ runs = 0
  /\ lastrun0 = Absent /\ first_day = -1 /\ first_written = <<>>
  /\ prev = [how |-> "none", day |-> -1]

Next ==
  \/ StartRun \/ GitInit \/ ResolveRange \/ BeginDay \/ OpenDayFile \/ WriteMessage
  \/ CopyAttachment \/ GitAddAttachment \/ CloseDayFile \/ GitAddMessages
  \/ OpenLastrun \/ WriteLastrun \/ GitAddLastrun \/ GitCommit
  \/ Finish \/ GitRemote \/ GitPush
  \/ Terminate \/ Exit \/ Tick \/ Rollback

Spec == Init /\ [][Next]_vars

\* ------------------------------------------------------------- properties
\* The date a marker content holds, or -1.
Stored(content) == IF content = Absent THEN -1 ELSE FromIsoformat(Rstrip(content))
Label(x) == Isoformat(x)
LogIndex == 1..Len(log)
Count(op, x) == Cardinality({ i \in LogIndex : log[i].op = op /\ log[i].day = x })
HasRange == \E i \in LogIndex : log[i].op = "range"
\* The days the run has processed completely: checkpoint written and, with git,
\* commit requested.
Completed(x) == Saved(x) /\ (args.use_git => Count("commit", x) >= 1)
DaysCompleted == Cardinality({ x \in 0..MaxDay : Completed(x) })
\* The days the run has begun, in the order it began them.
DaysBegun == LET idx == { i \in LogIndex : log[i].op = "day" }
                 RECURSIVE Pick(_)
                 Pick(i) == IF i > Len(log) THEN <<>>
                            ELSE (IF i \in idx THEN <<log[i].day>> ELSE <<>>) \o Pick(i + 1)
             IN Pick(1)
\* The messages of day x that belong to a conversation, read off the tables.
MessagesOn(x) ==
  { m \in db.message :
      /\ m.date >= x * TicksPerDay /\ m.date < (x + 1) * TicksPerDay
      /\ \E j \in db.chat_message_join : j.message_id = m.ROWID }
ZeroDay(x) == MessagesOn(x) = {}
\* The day file of conversation c for day x that a run nothing interrupts writes.
ExpectedDayFile(c, x) ==
  LET messages == MessagesOfChat(for_day(db, x), c)
  IN [i \in 1..Len(messages) |->
        render(messages[i], max_sender_length(messages)) \o <<"\n">>]
DayFilePath(c, x) == <<dir_name(ChatAll(db)[c]), DayFileName(x)>>
ChatsOn(x) == { m.chat_id : m \in { for_day(db, x)[i] : i \in 1..Len(for_day(db, x)) } }

\* C1: when a run that found a checkpoint completes, the checkpoint it leaves is not
\* earlier than the one it found, and later by exactly the number of days the run
\* processed completely.
C1_CheckpointAdvancesByDaysCompleted ==
  (pc = "done" /\ lastrun0 # Absent) =>
     /\ Stored(lastrun) >= Stored(lastrun0)
     /\ Stored(lastrun) - Stored(lastrun0) = DaysCompleted

C1_Witness == pc = "done" /\ lastrun0 # Absent /\ DaysCompleted >= 1 /\ runs = 2

\* C2: while day d is in work with git enabled, the marker holds d+1 only if the
\* commit of day d has been made.
C2_CheckpointOnlyAfterSnapshot ==
  (args.use_git /\ Running /\ d < n /\ lastrun = Isoformat(day + 1) \o <<"\n">>) =>
     \E i \in LogIndex : log[i].op = "commit" /\ log[i].day = day /\ log[i].rc = 0

\* C3: between runs, with git enabled, every day from the first one processed up to
\* the checkpoint (excluded) has a commit labelled with it.
C3_ContinuousSnapshots ==
  (args.use_git /\ pc = "idle" /\ first_day # -1 /\ Stored(lastrun) # -1) =>
     \A x \in first_day..(Stored(lastrun) - 1) : \E c \in commits : c.message = Label(x)

\* C4: the run after one that was terminated in day d before d's checkpoint was
\* written loads the checkpoint, starts at d, and once it has completed d the day
\* files of d are those of an uninterrupted run.
C4_RetryAfterTermination ==
  (prev.how = "killed_in_day" /\ pc \notin {"idle", "init", "load"}) =>
     /\ ~(pc = "crashed" /\ ~HasRange)
     /\ \A i \in LogIndex : log[i].op = "range" => log[i].day = prev.day
     /\ (HasRange /\ Saved(prev.day)) =>
          \A c \in ChatsOn(prev.day) :
            /\ DayFilePath(c, prev.day) \in DOMAIN files
            /\ files[DayFilePath(c, prev.day)] = ExpectedDayFile(c, prev.day)

\* C5: every day file of a day the run has completed holds exactly what it held when
\* that day was completed for the first time, also when the checkpoint was rolled
\* back and the day is written again.
C5_RewriteIsIdentical ==
  \A i \in LogIndex :
    (log[i].op = "close" /\ Saved(log[i].day)) =>
      /\ log[i].path \in DOMAIN first_written
      /\ files[log[i].path] = first_written[log[i].path].content

C5_Witness ==
  /\ prev.how = "rolled_back"
  /\ \E i \in LogIndex :
       /\ log[i].op = "close"
       /\ Saved(log[i].day)
       /\ log[i].path \in DOMAIN first_written
       /\ first_written[log[i].path].run < runs
       /\ Len(files[log[i].path]) >= 1

\* The marker as it was when the day of log entry i began: what the run loaded, or
\* what the day before wrote.
CheckpointAtStartOf(x) ==
  IF \E i \in LogIndex : log[i].op = "save" THEN Isoformat(x) \o <<"\n">> ELSE lastrun0

\* C6: a failed attachment copy in day d is the last thing the run does: the run has
\* stopped, the marker is as it was when d began, no commit of d was requested and
\* no later day was begun.
C6_CopyFailureHaltsRun ==
  \A i \in LogIndex :
    (log[i].op = "copy" /\ log[i].rc # 0) =>
      /\ pc = "crashed"
      /\ i = Len(log)
      /\ lastrun = CheckpointAtStartOf(log[i].day)
      /\ Stored(lastrun) <= log[i].day
      /\ Count("commit", log[i].day) = 0
      /\ \A j \in LogIndex : log[j].day <= log[i].day

C6_Witness ==
  /\ pc = "crashed"
  /\ stderr = <<"FileNotFoundError">>
  /\ \E i \in LogIndex : log[i].op = "copy" /\ log[i].rc # 0 /\ log[i].day < today - 1

\* C7: a git add or git commit of day d that returned non-zero has been reported on
\* stderr by the time the run is over or the marker is past d.
C7_SinkFailureSurfaced ==
  \A i \in LogIndex :
    ( /\ log[i].op \in {"add", "commit"}
      /\ log[i].rc # 0
      /\ (pc = "done" \/ Stored(lastrun) > log[i].day) ) => stderr # <<>>

\* C8: a completed run has requested one push when git is enabled and `git remote`
\* named a remote, and none otherwise.
RemoteConfigured == \E i \in LogIndex : log[i].op = "remote" /\ log[i].out # <<>>
Pushes == Cardinality({ i \in LogIndex : log[i].op = "push" })
C8_PushIffRemote ==
  pc = "done" => Pushes = (IF args.use_git /\ RemoteConfigured THEN 1 ELSE 0)

\* C9: a completed run has begun, in ascending order and once each, exactly the days
\* from its start (the checkpoint it found, else the date of the earliest message)
\* up to yesterday, and completed each; with an empty range it has written nothing,
\* left the marker alone and requested no commit.
EarliestDay == CHOOSE x \in 0..MaxDay :
                 /\ \E m \in db.message : m.date \div TicksPerDay = x
                 /\ \A m \in db.message : m.date \div TicksPerDay >= x
StartDay == IF lastrun0 = Absent THEN EarliestDay ELSE Stored(lastrun0)
C9_ProcessesCheckpointToYesterday ==
  pc = "done" =>
     /\ DaysBegun = [i \in 1..(today - StartDay) |-> StartDay + i - 1]
     /\ \A i \in 1..Len(DaysBegun) : Completed(DaysBegun[i]) /\ DaysBegun[i] < today
     /\ StartDay >= today =>
          /\ lastrun = lastrun0
          /\ \A i \in LogIndex : log[i].op \in {"init", "range", "remote", "push"}

C9_Witness == pc = "done" /\ Len(DaysBegun) >= 2 /\ lastrun0 = Absent

\* C10: a day without messages that the run has begun has had no day file opened,
\* written or staged and no attachment copied; once the run is past it, its
\* checkpoint was written and, with git, exactly one commit of it was requested;
\* and while it is the last day written the marker holds the day after it.
C10_EmptyDayStillCheckpointed ==
  \A x \in 0..MaxDay :
    (ZeroDay(x) /\ Began(x)) =>
      /\ \A i \in LogIndex :
           (log[i].day = x /\ log[i].op # "range") =>
             /\ log[i].op \in {"day", "save", "add", "commit"}
             /\ log[i].op = "add" => log[i].path = LastrunPath
      /\ Count("save", x) <= 1
      /\ Count("commit", x) <= 1
      /\ (pc = "done" \/ Began(x + 1)) =>
           /\ Count("save", x) = 1
           /\ Count("commit", x) = (IF args.use_git THEN 1 ELSE 0)
      /\ (Saved(x) /\ ~Began(x + 1)) => lastrun = Isoformat(x + 1) \o <<"\n">>
      /\ (\E i \in LogIndex : log[i].op = "commit" /\ log[i].day = x /\ log[i].rc = 0) =>
           \E c \in commits : c.message = Label(x)

C10_Witness ==
  /\ args.use_git
  /\ \E x \in 0..MaxDay :
       /\ ZeroDay(x) /\ Began(x) /\ Count("commit", x) = 1
       /\ \E y \in 0..MaxDay : y < x /\ ~ZeroDay(y)

\* The day files of the archive, and the timestamp a line of one begins with.
DayFileNames == { DayFileName(x) : x \in 0..MaxDay }
DayFiles == { p \in DOMAIN files : p[2] \in DayFileNames }
LineTimestamp(line) == SubSeq(line, 1, 19)
StrLeq(s, t) == s = t \/ StrLess(s, t)

\* C11: in every day file of the archive, and in the lines written to the one that
\* is open, the timestamps of consecutive message lines never decrease.
C11_LinesInTimestampOrder ==
  /\ \A p \in DayFiles :
       \A i \in 1..(Len(files[p]) - 1) :
         StrLeq(LineTimestamp(files[p][i]), LineTimestamp(files[p][i + 1]))
  /\ \A i \in 1..(Len(buffer) - 1) :
       StrLeq(LineTimestamp(buffer[i]), LineTimestamp(buffer[i + 1]))

C11_Witness ==
  /\ db = ReverseOrderStore
  /\ \E i \in LogIndex :
       /\ log[i].op = "close"
       /\ Len(files[log[i].path]) = 2
       /\ LineTimestamp(files[log[i].path][1]) # LineTimestamp(files[log[i].path][2])

\* The longest sender among messages, read off the messages one by one.
WidestSender(messages) ==
  CHOOSE k \in { Len(sender(messages[i])) : i \in 1..Len(messages) } :
    \A i \in 1..Len(messages) : Len(sender(messages[i])) <= k
\* line shows who right-aligned in a column of width characters after the
\* timestamp and a space, and ": " after the column.
ShowsSender(line, who, width) ==
  LET first == Len(Strftime(0)) + 2
  IN /\ Len(line) >= first + width + 1
     /\ line[first - 1] = " "
     /\ \A k \in first..(first + width - Len(who) - 1) : line[k] = " "
     /\ SubSeq(line, first + width - Len(who), first + width - 1) = who
     /\ line[first + width] = ":"
     /\ line[first + width + 1] = " "

\* C12: every line written to the day file of the conversation in work shows the
\* sender of its message right-aligned to the length of the longest sender among the
\* conversation's messages of the day, and the closed file has one such line per
\* message.
C12_SenderColumnWidth ==
  (FileIsOpen \/ pc = "add_messages") =>
     LET messages == MessagesOfChat(for_day(db, day), chat_id)
         lines == IF FileIsOpen THEN buffer ELSE files[messages_path]
     IN /\ Len(lines) <= Len(messages)
        /\ \A i \in 1..Len(lines) :
             ShowsSender(lines[i], sender(messages[i]), WidestSender(messages))
        /\ pc = "add_messages" => Len(lines) = Len(messages)

C12_Witness ==
  /\ pc = "add_messages"
  /\ LET messages == MessagesOfChat(for_day(db, day), chat_id)
     IN /\ Len(files[messages_path]) = 2
        /\ Len(sender(messages[1])) < Len(sender(messages[2]))
        /\ ShowsSender(files[messages_path][1], sender(messages[1]), Len(sender(messages[2])))

\* A message that has attachments and no text of its own: the text is NULL, empty,
\* or made of attachment placeholders only.
AttachmentOnly(m) ==
  /\ m.attachments # <<>>
  /\ (m.text = NULL \/ Remove(m.text, ObjectReplacement) = <<>>)
\* The tokens [{id}-{shortname}] of the attachments of m, joined by spaces.
Tokens(m) ==
  Join(<<" ">>, [i \in 1..Len(m.attachments) |->
                   <<"[">> \o IntStr(m.attachments[i].id) \o <<"-">>
                     \o m.attachments[i].shortname \o <<"]">>])
\* token without its brackets.
Unbracketed(token) == SubSeq(token, 2, Len(token) - 1)

\* C13: the next message to write, when it has attachments and no text of its own,
\* renders as timestamp, sender column and exactly its tokens; and the file an
\* attachment is copied to is named by its token without the brackets.
C13_AttachmentOnlyText ==
  /\ (pc = "write" /\ msgs # <<>> /\ AttachmentOnly(Head(msgs))) =>
       LET width == max_sender_length(MessagesOfChat(for_day(db, day), chat_id))
       IN render(Head(msgs), width)
            = Strftime(Head(msgs).timestamp) \o <<" ">>
                \o Rjust(sender(Head(msgs)), width) \o <<":", " ">> \o Tokens(Head(msgs))
  /\ (pc = "copy") =>
       attachment_path[2] = Unbracketed(Tokens([attachments |-> <<Head(atts)>>]))

\* The operations of the log that write, copy or stage a file of the archive other
\* than the marker.
IsFileOp(e) ==
  \/ e.op \in {"open", "write", "copy", "close"}
  \/ e.op = "add" /\ e.path # LastrunPath
IsAddLastrun(e) == e.op = "add" /\ e.path = LastrunPath
\* The operations of the log that belong to a day.
DayOps == { i \in LogIndex : log[i].day >= 0 /\ log[i].op # "range" }

\* C14: in the log of a run, the operations of a day come in this order: the day's
\* files are written (and, with git, each closed file is staged), then the checkpoint
\* is written once, then (with git) the marker is staged once and one commit of the
\* day is requested; and every operation of a later day comes after all of those.
C14_OrderWithinDay ==
  /\ \A i \in DayOps : \A j \in DayOps :
       /\ (log[i].day < log[j].day) => i < j
       /\ (log[i].day = log[j].day /\ IsFileOp(log[i]) /\ log[j].op = "save") => i < j
       /\ (log[i].day = log[j].day /\ log[i].op = "save" /\ IsAddLastrun(log[j])) => i < j
       /\ (log[i].day = log[j].day /\ IsAddLastrun(log[i]) /\ log[j].op = "commit") => i < j
  /\ \A i \in DayOps :
       (log[i].op = "close" /\ args.use_git /\ Saved(log[i].day)) =>
          \E j \in DayOps : j > i /\ log[j].op = "add" /\ log[j].path = log[i].path
                              /\ log[j].day = log[i].day
  /\ \A x \in 0..MaxDay :
       /\ Count("save", x) <= 1
       /\ Count("commit", x) <= 1
       /\ Count("commit", x) = 1 => (args.use_git /\ Saved(x))
       /\ (Began(x) /\ (pc = "done" \/ Began(x + 1))) =>
            /\ Count("save", x) = 1
            /\ Cardinality({ i \in DayOps : log[i].day = x /\ IsAddLastrun(log[i]) })
                 = (IF args.use_git THEN 1 ELSE 0)
            /\ Count("commit", x) = (IF args.use_git THEN 1 ELSE 0)
       /\ (\E i \in LogIndex : log[i].op = "commit" /\ log[i].day = x /\ log[i].rc = 0) =>
            \E c \in commits : c.message = Label(x)

C14_Witness ==
  /\ args.use_git
  /\ \E x \in 0..MaxDay :
       /\ Began(x + 1)
       /\ Count("commit", x) = 1
       /\ \E i \in DayOps : log[i].day = x /\ log[i].op = "add" /\ log[i].path # LastrunPath
       /\ \E i \in DayOps : log[i].day = x /\ log[i].op = "copy"

\* The paths the processing of day x produces: its day files, and the attachments of
\* its messages in the directories of their conversations.
PathsOfDay(x) ==
  LET messages == for_day(db, x)
      all == ChatAll(db)
  IN { p \in DOMAIN index : p[2] = DayFileName(x) }
     \cup UNION { { <<dir_name(all[messages[i].chat_id]), dst_name(messages[i].attachments[k])>> :
                      k \in 1..Len(messages[i].attachments) } :
                  i \in { j \in 1..Len(messages) : messages[j].chat_id \in DOMAIN all } }

\* C15: every commit made holds, besides the marker, only day files and attachments
\* of the day it is labelled with.
C15_SnapshotCoversOneDay ==
  \A c \in commits :
    \A x \in 0..MaxDay :
      c.message = Label(x) => c.paths \subseteq (PathsOfDay(x) \cup {LastrunPath})

\* Whether t occurs in s.
Contains(s, t) == \E k \in 1..(Len(s) - Len(t) + 1) : SubSeq(s, k, k + Len(t) - 1) = t
\* The token a line shows for attachment row a of the store.
TokenOf(a) == <<"[">> \o IntStr(a.ROWID) \o <<"-">> \o a.transfer_name \o <<"]">>

\* C16: with attachments enabled, whenever a day file of the last commit shows the
\* token of an attachment, the commit holds the payload under the token's name in
\* the same directory.
C16_NoReferenceWithoutPayload ==
  args.attachments =>
    \A p \in DOMAIN head :
      p[2] \in DayFileNames =>
        \A i \in 1..Len(head[p]) :
          \A a \in db.attachment :
            Contains(head[p][i], TokenOf(a)) =>
              <<p[1], Unbracketed(TokenOf(a))>> \in DOMAIN head

\* The message rows of day x that FOR_DAY joins to a conversation, by date and row id.
RECURSIVE SortMessages(_)
SortMessages(S) ==
  IF S = {} THEN <<>>
  ELSE LET m == CHOOSE a \in S : \A b \in S \ {a} :
                  a.date < b.date \/ (a.date = b.date /\ a.ROWID < b.ROWID)
       IN <<m>> \o SortMessages(S \ {m})
\* The attachments of message row m that the query surfaces.
SurfacedOf(m) ==
  { a \in db.attachment :
      /\ a.transfer_state = 5 /\ a.hide_attachment # 1
      /\ \E j \in db.message_attachment_join :
           j.message_id = m.ROWID /\ j.attachment_id = a.ROWID }
\* for_day(x) has one Message per message row of the day, in a conversation the row
\* is joined to, with each surfaced attachment of the row once.
Coalesced(x) ==
  LET rows == SortMessages(MessagesOn(x))
      messages == for_day(db, x)
  IN /\ Len(messages) = Len(rows)
     /\ \A i \in 1..Len(rows) :
          /\ messages[i].timestamp = rows[i].date
          /\ \E j \in db.chat_message_join :
               j.message_id = rows[i].ROWID /\ j.chat_id = messages[i].chat_id
          /\ Len(messages[i].attachments) = Cardinality(SurfacedOf(rows[i]))
          /\ { messages[i].attachments[k].id : k \in 1..Len(messages[i].attachments) }
               = { a.ROWID : a \in SurfacedOf(rows[i]) }

\* C17: for every day a run has begun, Message.for_day returned one Message per
\* message, in one conversation, with each surfaced attachment exactly once.
C17_OneMessagePerIdentifier == \A x \in 0..MaxDay : Began(x) => Coalesced(x)

\* The line of the i-th message for_day returns for day x, as its conversation's day
\* file shows it.
LineOf(x, i) ==
  LET messages == for_day(db, x)
  IN render(messages[i], max_sender_length(MessagesOfChat(messages, messages[i].chat_id)))
       \o <<"\n">>
\* The day files of day x that hold line.
FilesHolding(x, line) ==
  { p \in DayFiles : p[2] = DayFileName(x) /\ \E k \in 1..Len(files[p]) : files[p][k] = line }

\* C18: once a run has written the checkpoint of day x, every message fetched for x
\* is a line of exactly one day file of x.
C18_NoMessageLostByLayout ==
  \A x \in 0..MaxDay :
    Saved(x) =>
      \A i \in 1..Len(for_day(db, x)) : Cardinality(FilesHolding(x, LineOf(x, i))) = 1

\* C19: when no run is in progress, also after a run was terminated, the marker is
\* absent or holds one ISO date and a newline; and no run fails to load it.
C19_MarkerAlwaysLoadable ==
  /\ (pc \in {"idle", "killed"}) =>
        (lastrun = Absent \/ \E x \in Dates : lastrun = Isoformat(x) \o <<"\n">>)
  /\ ~(pc = "crashed" /\ stderr = <<"ValueError">>)

\* C20: every conversation with a message on a day the run has begun is in the map
\* of conversations the run loaded, and no run stops with a KeyError.
C20_ConversationAlwaysLoaded ==
  /\ \A x \in 0..MaxDay : Began(x) => ChatsOn(x) \subseteq DOMAIN chats
  /\ ~(pc = "crashed" /\ stderr = <<"KeyError">>)

====
